---- MODULE Spec2Model ----
(***************************************************************************)
(* Storage backend resolution, credential composition and URI validation   *)
(* of the EMPI backend (main/util/storage_factory.py,                      *)
(* main/views/person_records.py).                                          *)
(*                                                                         *)
(* Strings that the code inspects character by character (URIs) are        *)
(* sequences of one-character strings; None is the value NoneVal.          *)
(***************************************************************************)
EXTENDS Integers, Sequences, FiniteSets, TLC

VARIABLES
    environ,           \* os.environ, restricted to the names the factory reads
    storage,           \* get_config().storage as the static configuration holds it now
    factories,         \* the StorageFactory instances constructed so far (their storage_config)
    _storage_factory,  \* the module global: 0 is None, n > 0 is factories[n]
    returned,          \* the instances get_storage_factory() has returned so far, in call order
    last,              \* the last call: operation, receiver, argument and outcome
    call,              \* the last direct call of a URI validator: function, value, outcome
    ser,               \* the serializer whose is_valid() is running or has run
    created,           \* history: the static configuration the first singleton was created from
    pag,               \* the last call of a PaginationMixin method: arguments and result
    walk,              \* a client walking a list page by page: what it has received so far
    streams,           \* the byte streams fsspec has opened so far: "open" or "closed"
    block,             \* the caller's `with open_source(..)` / `with open_sink(..)` statement
    request,           \* the HTTP request an endpoint is handling, and how far it got
    reached,           \* history: the calls made on the Storage Factory with a URI
    threads            \* the threads inside get_storage_factory(): position and local result

factoryVars == <<environ, storage, factories, _storage_factory, returned, last, created>>
validationVars == <<call, ser>>
paginationVars == <<pag, walk>>
ioVars == <<streams, block>>
endpointVars == <<request, reached>>
threadVars == <<threads>>
otherVars == <<paginationVars, ioVars, endpointVars, threadVars>>
vars == <<factoryVars, validationVars, otherVars>>

-----------------------------------------------------------------------------
(* Bounds of the model *)

MaxFactories == 2
MaxCalls == 3
MaxPieces == 3
RecursionLimit == 3
MaxPage == 3
MaxPageSize == 3
MaxItems == 4
MaxThreads == 2
MaxStreams == 2

-----------------------------------------------------------------------------
(* Values *)

NoneVal == "<None>"

\* Python truthiness of an Optional[str]: None and "" are falsy
Truthy_NoCheck(v) == TRUE
Truthy(v) == v # NoneVal /\ v # ""

EmptyMap == [k \in {} |-> NoneVal]

\* dict item assignment, config[k] = v
Put(m, k, v) == [x \in (DOMAIN m) \cup {k} |-> IF x = k THEN v ELSE m[x]]

-----------------------------------------------------------------------------
(* URIs, as character sequences *)

S3Prefix    == <<"s", "3", ":", "/", "/">>
AbfsPrefix  == <<"a", "b", "f", "s", ":", "/", "/">>
AzurePrefix == <<"a", "z", "u", "r", "e", ":", "/", "/">>
FilePrefix  == <<"f", "i", "l", "e", ":", "/", "/">>
DfsHost     == <<".", "d", "f", "s", ".", "c", "o", "r", "e", ".",
                 "w", "i", "n", "d", "o", "w", "s", ".", "n", "e", "t">>
BlobHost    == <<".", "b", "l", "o", "b", ".", "c", "o", "r", "e", ".",
                 "w", "i", "n", "d", "o", "w", "s", ".", "n", "e", "t">>

\* str.startswith
startswith(s, p) == Len(s) >= Len(p) /\ SubSeq(s, 1, Len(p)) = p

\* the URIs of test_configured_backend_consistency, shortened
FactoryURIs ==
    { S3Prefix \o <<"b", "/", "k">>,
      AbfsPrefix \o <<"c", "@", "a">> \o DfsHost \o <<"/", "k">>,
      AzurePrefix \o <<"c", "@", "a">> \o BlobHost \o <<"/", "k">>,
      <<"/", "l", "/", "k">>,
      FilePrefix \o <<"/", "l", "/", "k">> }

-----------------------------------------------------------------------------
(* The static configuration: Config.storage *)

CfgValues == {NoneVal, "", "cfg-value"}
EnvValues == {NoneVal, "", "env-value"}

NoS3 == [present |-> FALSE, access_key_id |-> NoneVal, secret_access_key |-> NoneVal,
         region |-> NoneVal, endpoint_url |-> NoneVal]
NoAzure == [present |-> FALSE, account_name |-> NoneVal, account_key |-> NoneVal,
            connection_string |-> NoneVal, endpoint_url |-> NoneVal]

S3Configs ==
    {NoS3} \cup [present : {TRUE}, access_key_id : CfgValues, secret_access_key : CfgValues,
                 region : CfgValues, endpoint_url : CfgValues]
AzureConfigs ==
    {NoAzure} \cup [present : {TRUE}, account_name : CfgValues, account_key : CfgValues,
                    connection_string : CfgValues, endpoint_url : CfgValues]

\* the tags of StorageBackendType; "local" stands for every tag that is neither s3 nor azure_blob
BackendTags == {"s3", "azure_blob", "local"}

NoStorage == [present |-> FALSE, backend |-> NoneVal, s3 |-> NoS3, azure_blob |-> NoAzure]

\* storage sections that carry a backend tag and no nested settings
PlainStorages ==
    {NoStorage} \cup [present : {TRUE}, backend : BackendTags, s3 : {NoS3}, azure_blob : {NoAzure}]

EnvNames == {"AWS_ACCESS_KEY_ID", "AWS_SECRET_ACCESS_KEY", "AWS_DEFAULT_REGION",
             "AWS_ENDPOINT_URL", "AZURE_STORAGE_ACCOUNT_NAME", "AZURE_STORAGE_ACCOUNT_KEY",
             "AZURE_STORAGE_CONNECTION_STRING"}
AwsEnvNames == {"AWS_ACCESS_KEY_ID", "AWS_SECRET_ACCESS_KEY", "AWS_DEFAULT_REGION",
                "AWS_ENDPOINT_URL"}
AzureEnvNames == EnvNames \ AwsEnvNames

EmptyEnviron == [n \in EnvNames |-> NoneVal]

\* os.environ.get(name)
os_environ_get(env, name) == IF name \in DOMAIN env THEN env[name] ELSE NoneVal

-----------------------------------------------------------------------------
(* class StorageBackend(Enum) *)

S3 == "S3"
AZURE_BLOB == "AZURE_BLOB"
StorageBackend_LOCAL == "LOCAL"
StorageBackend == {S3, AZURE_BLOB, StorageBackend_LOCAL}

ErrStorageRequired == "ValueError: Storage configuration is required"
ErrUnsupportedBackend == "ValueError: Unsupported storage backend"

-----------------------------------------------------------------------------
(* class StorageFactory *)

\* __init__: self.storage_config = get_config().storage, taken as it is
StorageFactory_init(cfg_storage) == [raised |-> FALSE, storage_config |-> cfg_storage]

get_configured_backend_LocalFallback(self) ==
    IF ~self.storage_config.present THEN StorageBackend_LOCAL
    ELSE IF self.storage_config.backend = "s3" THEN S3
    ELSE IF self.storage_config.backend = "azure_blob" THEN AZURE_BLOB
    ELSE StorageBackend_LOCAL
\* a get_configured_backend that would read the static configuration again
get_configured_backend_Rereads(self) ==
    IF ~storage.present THEN ErrStorageRequired
    ELSE IF storage.backend = "s3" THEN S3
    ELSE IF storage.backend = "azure_blob" THEN AZURE_BLOB
    ELSE ErrUnsupportedBackend
get_configured_backend(self) ==
    IF ~self.storage_config.present THEN ErrStorageRequired
    ELSE IF self.storage_config.backend = "s3" THEN S3
    ELSE IF self.storage_config.backend = "azure_blob" THEN AZURE_BLOB
    ELSE ErrUnsupportedBackend

\* a get_backend_for_uri that would classify the URI by its scheme
get_backend_for_uri_ByScheme(self, uri) ==
    IF startswith(uri, S3Prefix) THEN S3
    ELSE IF startswith(uri, AbfsPrefix) \/ startswith(uri, AzurePrefix) THEN AZURE_BLOB
    ELSE get_configured_backend(self)
get_backend_for_uri(self, uri) == get_configured_backend(self)

\* configure_s3_backend: the environment first, then the config file on top of it
configure_s3_backend(self, env) ==
    LET e1 == IF Truthy(os_environ_get(env, "AWS_ACCESS_KEY_ID"))
              THEN Put(EmptyMap, "key", os_environ_get(env, "AWS_ACCESS_KEY_ID")) ELSE EmptyMap
        e2 == IF Truthy(os_environ_get(env, "AWS_SECRET_ACCESS_KEY"))
              THEN Put(e1, "secret", os_environ_get(env, "AWS_SECRET_ACCESS_KEY")) ELSE e1
        e3 == IF Truthy(os_environ_get(env, "AWS_DEFAULT_REGION"))
              THEN Put(e2, "region", os_environ_get(env, "AWS_DEFAULT_REGION")) ELSE e2
        e4 == IF Truthy(os_environ_get(env, "AWS_ENDPOINT_URL"))
              THEN Put(e3, "endpoint_url", os_environ_get(env, "AWS_ENDPOINT_URL")) ELSE e3
        s3_config == self.storage_config.s3
        c1 == IF Truthy(s3_config.access_key_id) THEN Put(e4, "key", s3_config.access_key_id) ELSE e4
        c2 == IF Truthy(s3_config.secret_access_key)
              THEN Put(c1, "secret", s3_config.secret_access_key) ELSE c1
        c3 == IF Truthy(s3_config.region) THEN Put(c2, "region", s3_config.region) ELSE c2
        c4 == IF Truthy(s3_config.endpoint_url)
              THEN Put(c3, "endpoint_url", s3_config.endpoint_url) ELSE c3
    IN  IF self.storage_config.present /\ s3_config.present THEN c4 ELSE e4

\* configure_azure_backend: the environment first, then the config file on top of it
configure_azure_backend(self, env) ==
    LET e1 == IF Truthy(os_environ_get(env, "AZURE_STORAGE_ACCOUNT_NAME"))
              THEN Put(EmptyMap, "account_name", os_environ_get(env, "AZURE_STORAGE_ACCOUNT_NAME"))
              ELSE EmptyMap
        e2 == IF Truthy(os_environ_get(env, "AZURE_STORAGE_ACCOUNT_KEY"))
              THEN Put(e1, "account_key", os_environ_get(env, "AZURE_STORAGE_ACCOUNT_KEY")) ELSE e1
        e3 == IF Truthy(os_environ_get(env, "AZURE_STORAGE_CONNECTION_STRING"))
              THEN Put(e2, "connection_string", os_environ_get(env, "AZURE_STORAGE_CONNECTION_STRING"))
              ELSE e2
        azure_config == self.storage_config.azure_blob
        c1 == IF Truthy(azure_config.account_name)
              THEN Put(e3, "account_name", azure_config.account_name) ELSE e3
        c2 == IF Truthy(azure_config.account_key)
              THEN Put(c1, "account_key", azure_config.account_key) ELSE c1
        c3 == IF Truthy(azure_config.connection_string)
              THEN Put(c2, "connection_string", azure_config.connection_string) ELSE c2
        c4 == IF Truthy(azure_config.endpoint_url)
              THEN Put(c3, "endpoint_url", azure_config.endpoint_url) ELSE c3
    IN  IF self.storage_config.present /\ azure_config.present THEN c4 ELSE e3

-----------------------------------------------------------------------------
(* The calls, as actions *)

NoCall == [op |-> "none", self |-> 0, uri |-> <<>>, outcome |-> NoneVal, mapping |-> EmptyMap]

Call(op, self, uri, outcome, mapping) ==
    [op |-> op, self |-> self, uri |-> uri, outcome |-> outcome, mapping |-> mapping]

\* history of the singleton: the static configuration that the instance of the first
\* assignment of _storage_factory was constructed from; later assignments leave it as it is
NotCreated == [set |-> FALSE, storage |-> NoStorage]
FirstCreated(c, cfg_storage) == IF c.set THEN c ELSE [set |-> TRUE, storage |-> cfg_storage]

\* get_storage_factory(): `if _storage_factory is None`
NeedsConstruction_Always(g) == TRUE
NeedsConstruction(g) == g = 0

\* the static configuration is replaced while the process runs
\* (the tests patch get_config to return another configuration)
SetStaticConfig ==
    /\ \E s \in PlainStorages : s # storage /\ storage' = s
    /\ last' = NoCall
    /\ UNCHANGED <<environ, factories, _storage_factory, returned, created, validationVars, otherVars>>

\* factory = StorageFactory(), a direct construction as the tests do
Construct ==
    /\ Len(factories) < MaxFactories
    /\ LET r == StorageFactory_init(storage)
       IN  IF r.raised
           THEN /\ last' = Call("StorageFactory", 0, <<>>, ErrStorageRequired, EmptyMap)
                /\ UNCHANGED factories
           ELSE /\ factories' = Append(factories, [storage_config |-> r.storage_config])
                /\ last' = Call("StorageFactory", Len(factories) + 1, <<>>, "ok", EmptyMap)
    /\ UNCHANGED <<environ, storage, _storage_factory, returned, created, validationVars, otherVars>>

\* get_storage_factory(), run by one thread without interruption
GetStorageFactory ==
    /\ Len(returned) < MaxCalls
    /\ IF NeedsConstruction(_storage_factory)
       THEN /\ Len(factories) < MaxFactories
            /\ LET r == StorageFactory_init(storage)
               IN  IF r.raised
                   THEN /\ last' = Call("get_storage_factory", 0, <<>>, ErrStorageRequired, EmptyMap)
                        /\ UNCHANGED <<factories, _storage_factory, returned, created>>
                   ELSE /\ factories' = Append(factories, [storage_config |-> r.storage_config])
                        /\ _storage_factory' = Len(factories) + 1
                        /\ returned' = Append(returned, Len(factories) + 1)
                        /\ created' = FirstCreated(created, storage)
                        /\ last' = Call("get_storage_factory", Len(factories) + 1, <<>>, "ok", EmptyMap)
       ELSE /\ returned' = Append(returned, _storage_factory)
            /\ last' = Call("get_storage_factory", _storage_factory, <<>>, "ok", EmptyMap)
            /\ UNCHANGED <<factories, _storage_factory, created>>
    /\ UNCHANGED <<environ, storage, validationVars, otherVars>>

\* factory.get_configured_backend()
GetConfiguredBackend ==
    /\ \E f \in 1..Len(factories) :
          last' = Call("get_configured_backend", f, <<>>, get_configured_backend(factories[f]), EmptyMap)
    /\ UNCHANGED <<environ, storage, factories, _storage_factory, returned, created, validationVars, otherVars>>

\* factory.get_backend_for_uri(uri)
GetBackendForUri ==
    /\ \E f \in 1..Len(factories), uri \in FactoryURIs :
          last' = Call("get_backend_for_uri", f, uri, get_backend_for_uri(factories[f], uri), EmptyMap)
    /\ UNCHANGED <<environ, storage, factories, _storage_factory, returned, created, validationVars, otherVars>>

\* factory.configure_s3_backend()
ConfigureS3 ==
    /\ \E f \in 1..Len(factories) :
          last' = Call("configure_s3_backend", f, <<>>, "ok", configure_s3_backend(factories[f], environ))
    /\ UNCHANGED <<environ, storage, factories, _storage_factory, returned, created, validationVars, otherVars>>

\* factory.configure_azure_backend()
ConfigureAzure ==
    /\ \E f \in 1..Len(factories) :
          last' = Call("configure_azure_backend", f, <<>>, "ok",
                       configure_azure_backend(factories[f], environ))
    /\ UNCHANGED <<environ, storage, factories, _storage_factory, returned, created, validationVars, otherVars>>

-----------------------------------------------------------------------------
(* Character classes and string helpers *)

LowerLetters == <<"a", "b", "c", "d", "e", "f", "g", "h", "i", "j", "k", "l", "m",
                  "n", "o", "p", "q", "r", "s", "t", "u", "v", "w", "x", "y", "z">>
UpperLetters == <<"A", "B", "C", "D", "E", "F", "G", "H", "I", "J", "K", "L", "M",
                  "N", "O", "P", "Q", "R", "S", "T", "U", "V", "W", "X", "Y", "Z">>
Digits == {"0", "1", "2", "3", "4", "5", "6", "7", "8", "9"}

Range(f) == {f[i] : i \in DOMAIN f}

\* str.isalpha() on an ASCII character
isalpha(c) == c \in Range(LowerLetters) \cup Range(UpperLetters)

\* urllib.parse.scheme_chars
scheme_chars == Range(LowerLetters) \cup Range(UpperLetters) \cup Digits \cup {"+", "-", "."}

\* str.lower()
lower(s) ==
    [i \in 1..Len(s) |->
        IF s[i] \in Range(UpperLetters)
        THEN LowerLetters[CHOOSE j \in 1..26 : UpperLetters[j] = s[i]]
        ELSE s[i]]

\* str.find(c, start) with positions counted from 1; 0 when c does not occur
find(s, c, start) ==
    IF \E i \in start..Len(s) : s[i] = c
    THEN CHOOSE i \in start..Len(s) : s[i] = c /\ \A j \in start..(i - 1) : s[j] # c
    ELSE 0

\* c in s, for a character c
has_char(s, c) == \E i \in 1..Len(s) : s[i] = c

\* sub in s, for a string sub
contains(s, sub) ==
    \E i \in 1..(Len(s) - Len(sub) + 1) : SubSeq(s, i, i + Len(sub) - 1) = sub

\* str.lstrip("/")
RECURSIVE lstrip_slash(_)
lstrip_slash(s) ==
    IF s # <<>> /\ Head(s) = "/" THEN lstrip_slash(Tail(s)) ELSE s

\* re.fullmatch(r"[a-z0-9.-]+", s)
fullmatch_bucket(s) ==
    /\ Len(s) >= 1
    /\ \A i \in 1..Len(s) : s[i] \in Range(LowerLetters) \cup Digits \cup {".", "-"}

-----------------------------------------------------------------------------
(* urllib.parse.urlparse(value, allow_fragments=False), for URIs written   *)
(* with ASCII letters, digits and : / ? # @ [ . - + (no "]", no ";", no    *)
(* white space or control characters)                                      *)

\* _splitnetloc(url, 2): the position of the first of / ? # after the "//"
netloc_end(url) ==
    LET ds == {find(url, c, 3) : c \in {"/", "?", "#"}} \ {0}
    IN  IF ds = {} THEN Len(url) + 1
        ELSE CHOOSE d \in ds : \A e \in ds : d <= e

urlparse(value) ==
    LET i == find(value, ":", 1)
        has_scheme == /\ i > 1
                      /\ isalpha(value[1])
                      /\ \A j \in 1..(i - 1) : value[j] \in scheme_chars
        scheme == IF has_scheme THEN lower(SubSeq(value, 1, i - 1)) ELSE <<>>
        url == IF has_scheme THEN SubSeq(value, i + 1, Len(value)) ELSE value
        has_netloc == Len(url) >= 2 /\ url[1] = "/" /\ url[2] = "/"
        delim == netloc_end(url)
        netloc == IF has_netloc THEN SubSeq(url, 3, delim - 1) ELSE <<>>
        rest == IF has_netloc THEN SubSeq(url, delim, Len(url)) ELSE url
        q == find(rest, "?", 1)
        path == IF q > 0 THEN SubSeq(rest, 1, q - 1) ELSE rest
        query == IF q > 0 THEN SubSeq(rest, q + 1, Len(rest)) ELSE <<>>
        \* raise ValueError("Invalid IPv6 URL")
        invalid_ipv6 == \/ has_char(netloc, "[") /\ ~has_char(netloc, "]")
                        \/ has_char(netloc, "]") /\ ~has_char(netloc, "[")
    IN  [raised |-> has_netloc /\ invalid_ipv6, scheme |-> scheme, netloc |-> netloc,
         path |-> path, query |-> query]

-----------------------------------------------------------------------------
(* class StorageURIValidatorMixin *)

Returned(value) == [status |-> "returned", value |-> value, message |-> ""]
ValidationError(message) == [status |-> "ValidationError", value |-> <<>>, message |-> message]
ValueError(message) == [status |-> "ValueError", value |-> <<>>, message |-> message]
RecursionError == [status |-> "RecursionError", value |-> <<>>, message |-> ""]

ErrInvalidIPv6 == ValueError("Invalid IPv6 URL")
ErrInvalidS3 == ValidationError("Invalid S3 URI")
ErrInvalidAzure == ValidationError("Invalid Azure Blob Storage URI")
ErrUnsupportedURI ==
    ValidationError("Unsupported storage URI format. Supported: s3://, abfs://, azure://")

\* the four conditions of validate_s3_uri
s3_uri_ok(value, parsed) ==
    /\ startswith(value, S3Prefix)
    /\ parsed.scheme = <<"s", "3">>
    /\ fullmatch_bucket(parsed.netloc)
    /\ lstrip_slash(parsed.path) # <<>>

validate_s3_uri(value) ==
    LET s3_uri_parsed == urlparse(value)
    IN  IF s3_uri_parsed.raised THEN ErrInvalidIPv6
        ELSE IF s3_uri_ok(value, s3_uri_parsed) THEN Returned(value)
        ELSE ErrInvalidS3

\* the conditions of validate_azure_blob_uri, by prefix
azure_uri_ok(value, parsed) ==
    \/ /\ startswith(value, AbfsPrefix)
       /\ parsed.scheme = <<"a", "b", "f", "s">>
       /\ has_char(parsed.netloc, "@")
       /\ contains(parsed.netloc, DfsHost)
       /\ parsed.path # <<>>
    \/ /\ ~startswith(value, AbfsPrefix)
       /\ startswith(value, AzurePrefix)
       /\ parsed.scheme = <<"a", "z", "u", "r", "e">>
       /\ has_char(parsed.netloc, "@")
       /\ contains(parsed.netloc, BlobHost)
       /\ parsed.path # <<>>

validate_azure_blob_uri(value) ==
    LET uri_parsed == urlparse(value)
    IN  IF uri_parsed.raised THEN ErrInvalidIPv6
        ELSE IF azure_uri_ok(value, uri_parsed) THEN Returned(value)
        ELSE ErrInvalidAzure

\* a validate_storage_uri that would let the values without a storage prefix through
validate_storage_uri_PassesOthers(value) ==
    IF startswith(value, S3Prefix) THEN validate_s3_uri(value)
    ELSE IF startswith(value, AbfsPrefix) \/ startswith(value, AzurePrefix)
         THEN validate_azure_blob_uri(value)
    ELSE Returned(value)
validate_storage_uri(value) ==
    IF startswith(value, S3Prefix) THEN validate_s3_uri(value)
    ELSE IF startswith(value, AbfsPrefix) \/ startswith(value, AzurePrefix)
         THEN validate_azure_blob_uri(value)
    ELSE ErrUnsupportedURI

ValidatorNames == {"validate_s3_uri", "validate_azure_blob_uri", "validate_storage_uri"}

\* StorageURIValidatorMixin().<name>(value)
mixin_validate(name, value) ==
    CASE name = "validate_s3_uri" -> validate_s3_uri(value)
      [] name = "validate_azure_blob_uri" -> validate_azure_blob_uri(value)
      [] name = "validate_storage_uri" -> validate_storage_uri(value)

-----------------------------------------------------------------------------
(* The URIs given to the validators: a prefix followed by up to MaxPieces  *)
(* pieces                                                                  *)

URIPrefixes == {<<>>, S3Prefix, AbfsPrefix, AzurePrefix, FilePrefix}
URIPieces == {<<"b">>, <<"B">>, <<"/">>, <<"@">>, <<"[">>, <<"?">>, DfsHost, BlobHost}

RECURSIVE concat(_)
concat(ps) == IF ps = <<>> THEN <<>> ELSE Head(ps) \o concat(Tail(ps))

URIValues ==
    {p \o concat(t) : p \in URIPrefixes, t \in UNION {[1..n -> URIPieces] : n \in 0..MaxPieces}}

NoValidation == [fn |-> "none", value |-> <<>>, outcome |-> Returned(<<>>)]
NoSerializer ==
    [pc |-> "idle", cls |-> "none", data |-> <<>>, field |-> 0, depth |-> 0, errors |-> {},
     outcome |-> ""]

\* validator = StorageURIValidatorMixin(); validator.<fn>(value)
CallValidator ==
    /\ call = NoValidation
    /\ ser.pc = "idle"
    /\ \E fn \in ValidatorNames, value \in URIValues :
          call' = [fn |-> fn, value |-> value, outcome |-> mixin_validate(fn, value)]
    /\ UNCHANGED <<factoryVars, ser, otherVars>>

-----------------------------------------------------------------------------
(* The request serializers: ImportPersonRecordsRequest and                 *)
(* ExportPersonRecordsRequest under is_valid()                             *)

NotGiven == [given |-> FALSE, value |-> <<>>]
Given(v) == [given |-> TRUE, value |-> v]

ValidS3URI == S3Prefix \o <<"b", "/", "k">>
ValidAbfsURI == AbfsPrefix \o <<"c", "@", "a">> \o DfsHost \o <<"/", "k">>
ValidAzureURI == AzurePrefix \o <<"c", "@", "a">> \o BlobHost \o <<"/", "k">>

\* the config ids that validate_config_id accepts ("Config_1" in the tests), and one it rejects
Config_1 == <<"C", "o", "n", "f", "i", "g", "_", "1">>
BadConfigId == <<"1">>
is_config_object_id(value) == value \in {Config_1}

validate_config_id(value) ==
    IF is_config_object_id(value) THEN Returned(value)
    ELSE ValidationError("Invalid Config ID")

ImportFields == <<"s3_uri", "azure_blob_uri", "storage_uri", "file", "config_id">>
ExportFields == <<"s3_uri", "azure_blob_uri", "storage_uri">>
Fields(cls) == IF cls = "ImportPersonRecordsRequest" THEN ImportFields ELSE ExportFields

URIFields == {"s3_uri", "azure_blob_uri", "storage_uri"}
\* serializers.CharField(): required unless required=False
Required(name) == name = "config_id"
\* CharField(allow_blank=False)
IsCharField(name) == name \in URIFields \cup {"config_id"}

\* the request bodies of the model: the fields sent, and whether the body is a multipart
\* form or a JSON object; an uploaded file comes in a multipart form only
RequestData(cls) ==
  {data \in
    [form : BOOLEAN,
     s3_uri : {NotGiven, Given(ValidS3URI), Given(<<>>), Given(S3Prefix \o <<"b">>)},
     azure_blob_uri : {NotGiven, Given(ValidAbfsURI), Given(AbfsPrefix \o <<"b">>)},
     storage_uri : {NotGiven, Given(ValidS3URI), Given(ValidAzureURI),
                    Given(FilePrefix \o <<"/", "k">>)},
     file : IF cls = "ImportPersonRecordsRequest" THEN {NotGiven, Given(<<"f">>)} ELSE {NotGiven},
     config_id : IF cls = "ImportPersonRecordsRequest"
                 THEN {NotGiven, Given(Config_1), Given(BadConfigId)} ELSE {NotGiven}] :
    data.file.given => data.form}

\* html.is_html_input(request.data): the body is a multipart form
is_html_input(data) == data.form

\* Field.get_value on a multipart form: '' for a field that is not required (and has
\* neither allow_null nor allow_blank) stands for a field that was not sent
sent_empty(data, name) ==
    is_html_input(data) /\ ~Required(name) /\ data[name].given /\ data[name].value = <<>>

\* getattr(self, "validate_" + field_name): the function the attribute lookup finds.
\* ImportPersonRecordsRequest overrides the three URI validators of the mixin
validate_method(cls, name) ==
    IF name \in URIFields
    THEN IF cls = "ImportPersonRecordsRequest"
         THEN "ImportPersonRecordsRequest.validate_" \o name
         ELSE "StorageURIValidatorMixin.validate_" \o name
    ELSE IF name = "config_id" /\ cls = "ImportPersonRecordsRequest"
         THEN "ImportPersonRecordsRequest.validate_config_id"
    ELSE "none"

\* the overrides, whose body is `return self.validate_<field>(value)`
CallsItself(method) ==
    method \in {"ImportPersonRecordsRequest.validate_" \o name : name \in URIFields}

ErrMustProvide == "Must provide one of: 's3_uri', 'azure_blob_uri', 'storage_uri', or 'file'."
ErrOnlyOne == "Provide only one storage option, not multiple."

\* provided_options of ImportPersonRecordsRequest.validate
provided_options(data) ==
    {name \in {"s3_uri", "azure_blob_uri", "storage_uri", "file"} :
        data[name].given /\ data[name].value # <<>>}

\* ImportPersonRecordsRequest.validate(data); the export serializer has none
validate(cls, data) ==
    IF cls = "ImportPersonRecordsRequest"
    THEN IF Cardinality(provided_options(data)) = 0 THEN ValidationError(ErrMustProvide)
         ELSE IF Cardinality(provided_options(data)) > 1 THEN ValidationError(ErrOnlyOne)
         ELSE Returned(<<>>)
    ELSE Returned(<<>>)

Serializer(pc, cls, data, field, depth, errors, outcome) ==
    [pc |-> pc, cls |-> cls, data |-> data, field |-> field, depth |-> depth,
     errors |-> errors, outcome |-> outcome]

\* serializer = <cls>(data=request.data); serializer.is_valid()
IsValid ==
    /\ call = NoValidation
    /\ ser.pc = "idle"
    /\ \E cls \in {"ImportPersonRecordsRequest", "ExportPersonRecordsRequest"} :
          \E data \in RequestData(cls) :
             ser' = Serializer("fields", cls, data, 1, 0, {}, "")
    /\ UNCHANGED <<factoryVars, call, otherVars>>

\* to_internal_value: the next declared field is validated, then its validate_<field>
RunField ==
    /\ ser.pc = "fields"
    /\ ser.field <= Len(Fields(ser.cls))
    /\ LET name == Fields(ser.cls)[ser.field]
           v == ser.data[name]
           method == validate_method(ser.cls, name)
           next(errors) == Serializer("fields", ser.cls, ser.data, ser.field + 1, 0, errors, "")
           result == IF method = "ImportPersonRecordsRequest.validate_config_id"
                     THEN validate_config_id(v.value)
                     ELSE mixin_validate("validate_" \o name, v.value)
       IN  IF ~v.given \/ sent_empty(ser.data, name)
           THEN ser' = next(IF Required(name)
                            THEN ser.errors \cup {<<name, "This field is required.">>}
                            ELSE ser.errors)
           ELSE IF IsCharField(name) /\ v.value = <<>>
           THEN ser' = next(ser.errors \cup {<<name, "This field may not be blank.">>})
           ELSE IF method = "none"
           THEN ser' = next(ser.errors)
           ELSE IF CallsItself(method)
           THEN ser' = Serializer("validate_method", ser.cls, ser.data, ser.field, 1, ser.errors, "")
           ELSE IF result.status = "returned"
           THEN ser' = next(ser.errors)
           ELSE IF result.status = "ValidationError"
           THEN ser' = next(ser.errors \cup {<<name, result.message>>})
           ELSE ser' = Serializer("done", ser.cls, ser.data, ser.field, 0, ser.errors, result.status)
    /\ UNCHANGED <<factoryVars, call, otherVars>>

\* inside ImportPersonRecordsRequest.validate_<field>: self.validate_<field>(value) is
\* this method again; the interpreter raises RecursionError at its recursion limit
CallItself ==
    /\ ser.pc = "validate_method"
    /\ IF ser.depth < RecursionLimit
       THEN ser' = [ser EXCEPT !.depth = ser.depth + 1]
       ELSE ser' = [ser EXCEPT !.pc = "done", !.outcome = "RecursionError"]
    /\ UNCHANGED <<factoryVars, call, otherVars>>

\* after the fields: the field errors are raised, or validate(data) runs
RunValidate ==
    /\ ser.pc = "fields"
    /\ ser.field > Len(Fields(ser.cls))
    /\ IF ser.errors # {}
       THEN ser' = [ser EXCEPT !.pc = "done", !.outcome = "invalid"]
       ELSE LET r == validate(ser.cls, ser.data)
            IN  IF r.status = "returned"
                THEN ser' = [ser EXCEPT !.pc = "done", !.outcome = "valid"]
                ELSE ser' = [ser EXCEPT !.pc = "done", !.outcome = "invalid",
                                        !.errors = {<<"non_field_errors", r.message>>}]
    /\ UNCHANGED <<factoryVars, call, otherVars>>

-----------------------------------------------------------------------------
(* class PaginationMixin *)

DEFAULT_PAGE_SIZE == 50
MAX_PAGE_SIZE == 1000

\* an Optional[int]: None, or an integer
NoInt == [present |-> FALSE, value |-> 0]
SomeInt(n) == [present |-> TRUE, value |-> n]

\* data.get(key, default), for a request mapping that holds the keys of its domain
dict_get(data, key, default) == IF key \in DOMAIN data THEN data[key] ELSE default

\* the builtin min(a, b) on integers
min(a, b) == IF b < a THEN b ELSE a

get_pagination_params_NoCap(data) ==
    [page |-> dict_get(data, "page", 1),
     page_size |-> dict_get(data, "page_size", DEFAULT_PAGE_SIZE)]
get_pagination_params(data) ==
    [page |-> dict_get(data, "page", 1),
     page_size |-> min(dict_get(data, "page_size", DEFAULT_PAGE_SIZE), MAX_PAGE_SIZE)]

get_skip_take_SkipsThisPage(data) ==
    LET params == get_pagination_params(data)
    IN  [skip |-> params.page * params.page_size, take |-> params.page_size + 1]
get_skip_take(data) ==
    LET params == get_pagination_params(data)
        skip == (params.page - 1) * params.page_size
        take == params.page_size + 1
    IN  [skip |-> skip, take |-> take]

\* the position a slice bound stands for in a list of length n: a negative bound counts
\* from the end, and every bound is clipped to 0..n
slice_bound(i, n) ==
    IF i < 0 THEN (IF n + i < 0 THEN 0 ELSE n + i)
    ELSE IF i > n THEN n ELSE i

\* items[start:stop]
slice_WithLookahead(items, start, stop) ==
    SubSeq(items, slice_bound(start, Len(items)) + 1, slice_bound(stop + 1, Len(items)))
slice(items, start, stop) ==
    SubSeq(items, slice_bound(start, Len(items)) + 1, slice_bound(stop, Len(items)))

paginate_list_NextWhenFull(items, page, page_size) ==
    [items |-> slice(items, 0, page_size),
     pagination |-> [page |-> page, page_size |-> page_size,
                     has_next |-> Len(items) >= page_size,
                     has_previous |-> page > 1,
                     next_page |-> IF Len(items) >= page_size THEN SomeInt(page + 1) ELSE NoInt,
                     previous_page |-> IF page > 1 THEN SomeInt(page - 1) ELSE NoInt]]
paginate_list_NextAlways(items, page, page_size) ==
    [items |-> slice(items, 0, page_size),
     pagination |-> [page |-> page, page_size |-> page_size,
                     has_next |-> Len(items) > page_size,
                     has_previous |-> page > 1,
                     next_page |-> SomeInt(page + 1),
                     previous_page |-> IF page > 1 THEN SomeInt(page - 1) ELSE NoInt]]
paginate_list(items, page, page_size) ==
    LET has_next == Len(items) > page_size
        has_previous == page > 1
    IN  [items |-> slice(items, 0, page_size),
         pagination |-> [page |-> page, page_size |-> page_size,
                         has_next |-> has_next,
                         has_previous |-> has_previous,
                         next_page |-> IF has_next THEN SomeInt(page + 1) ELSE NoInt,
                         previous_page |-> IF has_previous THEN SomeInt(page - 1) ELSE NoInt]]

\* the pages, page sizes and item lists the methods are called with
PageValues == (0 - 1)..MaxPage
PageSizeValues ==
    ((0 - 1)..MaxPageSize)
        \cup {10, DEFAULT_PAGE_SIZE, MAX_PAGE_SIZE - 1, MAX_PAGE_SIZE, MAX_PAGE_SIZE + 1, 5000}

\* request mappings: each of page and page_size is absent or an integer
RequestMappings ==
    {EmptyMap} \cup
    {[k \in {"page"} |-> p] : p \in PageValues} \cup
    {[k \in {"page_size"} |-> s] : s \in PageSizeValues} \cup
    {[k \in {"page", "page_size"} |-> IF k = "page" THEN p ELSE s] :
        p \in PageValues, s \in PageSizeValues}

\* item lists: every list of at most MaxItems items, and the lists of 5 and of 11 items
ItemLists ==
    UNION {[1..n -> 1..2] : n \in 0..MaxItems} \cup {[i \in 1..5 |-> i], [i \in 1..11 |-> i]}

NoPagination ==
    [op |-> "none", data |-> EmptyMap, items |-> <<>>, page |-> 0, page_size |-> 0,
     params |-> [page |-> 0, page_size |-> 0], skip_take |-> [skip |-> 0, take |-> 0],
     result |-> paginate_list(<<>>, 0, 0)]

\* PaginationMixin().get_pagination_params(data)
GetPaginationParams ==
    /\ pag.op = "none"
    /\ \E data \in RequestMappings :
          pag' = [NoPagination EXCEPT !.op = "get_pagination_params", !.data = data,
                                      !.params = get_pagination_params(data)]
    /\ UNCHANGED <<factoryVars, validationVars, walk, ioVars, endpointVars, threadVars>>

\* PaginationMixin().get_skip_take(data)
GetSkipTake ==
    /\ pag.op = "none"
    /\ \E data \in RequestMappings :
          pag' = [NoPagination EXCEPT !.op = "get_skip_take", !.data = data,
                                      !.skip_take = get_skip_take(data)]
    /\ UNCHANGED <<factoryVars, validationVars, walk, ioVars, endpointVars, threadVars>>

\* PaginationMixin().paginate_list(items, page, page_size)
PaginateList ==
    /\ pag.op = "none"
    /\ \E items \in ItemLists, page \in PageValues, page_size \in PageSizeValues :
          pag' = [NoPagination EXCEPT !.op = "paginate_list", !.items = items, !.page = page,
                                      !.page_size = page_size,
                                      !.result = paginate_list(items, page, page_size)]
    /\ UNCHANGED <<factoryVars, validationVars, walk, ioVars, endpointVars, threadVars>>

-----------------------------------------------------------------------------
(* A walk through a result set: a client asks for page 1 and then for the  *)
(* next_page of each answer, until an answer has no next page. Each page   *)
(* is fetched with the skip and take of get_skip_take and shaped by        *)
(* paginate_list                                                           *)

\* the caller's query for a page: items[skip : skip + take] of the result set
fetch(items, skip, take) == slice(items, skip, skip + take)

\* one page of the result set for a request mapping: get_skip_take, the query,
\* get_pagination_params and paginate_list
list_page(items, data) ==
    LET skip_take == get_skip_take(data)
        params == get_pagination_params(data)
    IN  paginate_list(fetch(items, skip_take.skip, skip_take.take),
                      params.page, params.page_size)

\* the page sizes of a walk: 1..1000
WalkPageSizes ==
    (1..MaxPageSize) \cup {10, DEFAULT_PAGE_SIZE, MAX_PAGE_SIZE - 1, MAX_PAGE_SIZE}

NoWalk ==
    [pc |-> "idle", items |-> <<>>, page_size |-> 0, page |-> 0, next_page |-> SomeInt(1),
     received |-> <<>>, has_next |-> FALSE, pages |-> 0]

\* the client picks a result set and a page size
StartWalk ==
    /\ walk.pc = "idle"
    /\ \E items \in ItemLists, page_size \in WalkPageSizes :
          walk' = [NoWalk EXCEPT !.pc = "walking", !.items = items, !.page_size = page_size]
    /\ UNCHANGED <<factoryVars, validationVars, pag, ioVars, endpointVars, threadVars>>

\* the client asks for the next page and appends its items to what it has received
RequestPage ==
    /\ walk.pc = "walking"
    /\ walk.next_page.present
    /\ LET data == [page |-> walk.next_page.value, page_size |-> walk.page_size]
           result == list_page(walk.items, data)
       IN  walk' = [walk EXCEPT !.page = result.pagination.page,
                                !.next_page = result.pagination.next_page,
                                !.has_next = result.pagination.has_next,
                                !.received = walk.received \o result.items,
                                !.pages = walk.pages + 1,
                                !.pc = IF result.pagination.has_next THEN "walking"
                                       ELSE "done"]
    /\ UNCHANGED <<factoryVars, validationVars, pag, ioVars, endpointVars, threadVars>>

-----------------------------------------------------------------------------
(* StorageFactory: get_fsspec_config, get_backend_info; get_storage_factory *)

\* StorageBackend.<member>.value
backend_value(backend) ==
    IF backend = S3 THEN "s3" ELSE IF backend = AZURE_BLOB THEN "azure_blob" ELSE "local"

get_fsspec_config(self, backend, env) ==
    IF backend = S3 THEN configure_s3_backend(self, env)
    ELSE IF backend = AZURE_BLOB THEN configure_azure_backend(self, env)
    ELSE EmptyMap

\* get_backend_info(uri): the backend's value and its settings, or the error of
\* get_configured_backend()
get_backend_info(self, uri, env) ==
    LET backend == get_configured_backend(self)
    IN  IF backend \in StorageBackend
        THEN [raised |-> FALSE, backend |-> backend_value(backend), uri |-> uri,
              config |-> get_fsspec_config(self, backend, env), configured_backend |-> TRUE]
        ELSE [raised |-> TRUE, backend |-> backend, uri |-> uri, config |-> EmptyMap,
              configured_backend |-> FALSE]

\* get_storage_factory() run without interruption on the instances fs and the global g:
\* the instances and the global after it, and the instance it returns
get_storage_factory(fs, g, cfg_storage) ==
    IF NeedsConstruction(g)
    THEN LET r == StorageFactory_init(cfg_storage)
         IN  IF r.raised
             THEN [raised |-> TRUE, factories |-> fs, global |-> g, instance |-> 0]
             ELSE [raised |-> FALSE,
                   factories |-> Append(fs, [storage_config |-> r.storage_config]),
                   global |-> Len(fs) + 1, instance |-> Len(fs) + 1]
    ELSE [raised |-> FALSE, factories |-> fs, global |-> g, instance |-> g]

\* factory.get_backend_info(uri)
GetBackendInfo ==
    /\ \E f \in 1..Len(factories), uri \in FactoryURIs :
          LET info == get_backend_info(factories[f], uri, environ)
          IN  last' = Call("get_backend_info", f, uri, info.backend, info.config)
    /\ UNCHANGED <<environ, storage, factories, _storage_factory, returned, created,
                   validationVars, otherVars>>

-----------------------------------------------------------------------------
(* main/util/io.py: _configure_fsspec_for_azure, open_source, open_sink *)

\* what this process's installation and surroundings make of `import adlfs`, of
\* `from azure.identity import DefaultAzureCredential` and of DefaultAzureCredential():
\* "ok", or the exception raised
ImportOutcomes == {"ok", "ImportError"}
ConstructorOutcomes == {"ok", "ImportError", "ValueError"}
AzureWorlds ==
    [adlfs : ImportOutcomes, azure_identity : ImportOutcomes,
     DefaultAzureCredential : ConstructorOutcomes]

\* what fsspec's open of the stream ends with
TransportOutcomes == {"ok", "FileNotFoundError", "PermissionError"}

\* except ImportError: pass
caught(exception) == exception = "ImportError"

\* "returned", or the exception that leaves the function
_configure_fsspec_for_azure(env, world) ==
    LET probe == IF world.azure_identity # "ok" THEN world.azure_identity
                 ELSE world.DefaultAzureCredential
        inner == IF probe = "ok" \/ caught(probe) THEN "ok" ELSE probe
        body == IF world.adlfs # "ok" THEN world.adlfs
                ELSE IF ~Truthy(os_environ_get(env, "AZURE_STORAGE_ACCOUNT_NAME")) THEN inner
                ELSE "ok"
    IN  IF body = "ok" \/ caught(body) THEN "returned" ELSE body

\* the sources and sinks: a URI string, or a file object (UploadedFile, IO[bytes])
FileObject == [is_str |-> FALSE, uri |-> <<>>]
URIString(uri) == [is_str |-> TRUE, uri |-> uri]
Sources == {FileObject} \cup {URIString(uri) : uri \in FactoryURIs}

mode_of(fn) == IF fn = "open_source" THEN "rb" ELSE "wb"

\* open_source(uri) / open_sink(uri) for a URI string, from the call to the yield:
\* the factory, its backend, the Azure activation, then open_with_backend and the open
\* of the stream; outcome is "yielded" or the exception that ends the function
open_uri(fn, uri, world, transport) ==
    LET got == get_storage_factory(factories, _storage_factory, storage)
        storage_factory == got.factories[got.instance]
        backend == IF got.raised THEN ErrStorageRequired
                   ELSE get_configured_backend(storage_factory)
        has_backend == backend \in StorageBackend
        azure == IF has_backend /\ backend_value(backend) = "azure_blob"
                 THEN _configure_fsspec_for_azure(environ, world) ELSE "not called"
        open_called == has_backend /\ azure \in {"not called", "returned"}
        backend_config == IF open_called THEN get_fsspec_config(storage_factory, backend, environ)
                          ELSE EmptyMap
    IN  [got |-> got, azure |-> azure, open_called |-> open_called,
         mode |-> mode_of(fn), backend_config |-> backend_config,
         outcome |-> IF ~has_backend THEN backend
                     ELSE IF ~open_called THEN azure
                     ELSE IF transport = "ok" THEN "yielded" ELSE transport]

\* leaving `with storage_factory.open_with_backend(..) as f: yield f`, at the end of the
\* caller's block or by the exception the block raised: the stream is closed. A file
\* object that was passed in is left as it is
leave_CloseAtEndOnly(ss, handle, is_str, raised) ==
    IF is_str /\ ~raised THEN [ss EXCEPT ![handle].state = "closed"] ELSE ss
leave(ss, handle, is_str, raised) ==
    IF is_str THEN [ss EXCEPT ![handle].state = "closed"] ELSE ss

NoBlock ==
    [pc |-> "idle", fn |-> "none", source |-> FileObject, handle |-> 0, azure |-> "not called",
     open_called |-> FALSE, outcome |-> ""]

BlockExceptions == {"InvalidPersonRecordFileFormat", "KeyboardInterrupt"}

\* the history of the singleton after a call of get_storage_factory()
created_after(got) ==
    IF _storage_factory = 0 /\ got.global # 0 THEN FirstCreated(created, storage) ELSE created

\* the instances, the global and the history after a call of get_storage_factory()
AfterGetStorageFactory(got) ==
    /\ factories' = got.factories
    /\ _storage_factory' = got.global
    /\ created' = created_after(got)
    /\ returned' = IF got.raised THEN returned ELSE Append(returned, got.instance)

\* with open_source(source) as f: / with open_sink(sink) as f: ... up to the first
\* statement of the block
EnterWith ==
    /\ block.pc = "idle"
    /\ Len(returned) < MaxCalls
    /\ Len(streams) < MaxStreams
    /\ NeedsConstruction(_storage_factory) => Len(factories) < MaxFactories
    /\ \E fn \in {"open_source", "open_sink"}, source \in Sources,
          world \in AzureWorlds, transport \in TransportOutcomes :
          IF source.is_str
          THEN LET o == open_uri(fn, source.uri, world, transport)
               IN  /\ AfterGetStorageFactory(o.got)
                   /\ streams' = IF o.outcome = "yielded"
                                 THEN Append(streams, [uri |-> source.uri, mode |-> o.mode,
                                                       owner |-> "fsspec", state |-> "open"])
                                 ELSE streams
                   /\ block' = [pc |-> IF o.outcome = "yielded" THEN "inside" ELSE "left",
                                fn |-> fn, source |-> source,
                                handle |-> IF o.outcome = "yielded" THEN Len(streams) + 1 ELSE 0,
                                azure |-> o.azure, open_called |-> o.open_called,
                                outcome |-> o.outcome]
          ELSE /\ streams' = Append(streams, [uri |-> <<>>, mode |-> mode_of(fn),
                                              owner |-> "caller", state |-> "open"])
               /\ block' = [NoBlock EXCEPT !.pc = "inside", !.fn = fn, !.source = source,
                                           !.handle = Len(streams) + 1, !.outcome = "yielded"]
               /\ UNCHANGED <<factories, _storage_factory, created, returned>>
    /\ UNCHANGED <<environ, storage, last, validationVars, paginationVars, endpointVars,
                   threadVars>>

\* the block runs to its end
BlockCompletes ==
    /\ block.pc = "inside"
    /\ streams' = leave(streams, block.handle, block.source.is_str, FALSE)
    /\ block' = [block EXCEPT !.pc = "left", !.outcome = "completed"]
    /\ UNCHANGED <<factoryVars, validationVars, paginationVars, endpointVars, threadVars>>

\* a statement of the block raises; the exception leaves the with statement
BlockRaises ==
    /\ block.pc = "inside"
    /\ \E exception \in BlockExceptions :
          /\ streams' = leave(streams, block.handle, block.source.is_str, TRUE)
          /\ block' = [block EXCEPT !.pc = "left", !.outcome = exception]
    /\ UNCHANGED <<factoryVars, validationVars, paginationVars, endpointVars, threadVars>>

\* the caller goes on to its next with statement
NextWith ==
    /\ block.pc = "left"
    /\ block' = NoBlock
    /\ UNCHANGED <<factoryVars, validationVars, paginationVars, streams, endpointVars,
                   threadVars>>

-----------------------------------------------------------------------------
(* get_storage_factory() run by several threads: the test of the global,   *)
(* the construction, the assignment and the return are separate steps      *)

Threads == 1..MaxThreads

IdleThread == [pc |-> "idle", instance |-> 0]

InCall == {t \in Threads : threads[t].pc # "idle"}

\* a thread calls get_storage_factory(): `if _storage_factory is None`
ThreadTest(t) ==
    /\ threads[t].pc = "idle"
    /\ Len(returned) + Cardinality(InCall) < MaxCalls
    /\ threads' = [threads EXCEPT ![t].pc = IF NeedsConstruction(_storage_factory)
                                            THEN "construct" ELSE "return"]
    /\ UNCHANGED <<factoryVars, validationVars, paginationVars, ioVars, endpointVars>>

\* StorageFactory(), the right-hand side of the assignment
ThreadConstruct(t) ==
    /\ threads[t].pc = "construct"
    /\ LET r == StorageFactory_init(storage)
       IN  IF r.raised
           THEN /\ threads' = [threads EXCEPT ![t] = IdleThread]
                /\ UNCHANGED factories
           ELSE /\ factories' = Append(factories, [storage_config |-> r.storage_config])
                /\ threads' = [threads EXCEPT ![t] = [pc |-> "store", instance |-> Len(factories) + 1]]
    /\ UNCHANGED <<environ, storage, _storage_factory, returned, last, created, validationVars,
                   paginationVars, ioVars, endpointVars>>

\* _storage_factory = <the new instance>
ThreadStore(t) ==
    /\ threads[t].pc = "store"
    /\ _storage_factory' = threads[t].instance
    /\ created' = FirstCreated(created, factories[threads[t].instance].storage_config)
    /\ threads' = [threads EXCEPT ![t].pc = "return"]
    /\ UNCHANGED <<environ, storage, factories, returned, last, validationVars, paginationVars,
                   ioVars, endpointVars>>

\* return _storage_factory
ThreadReturn(t) ==
    /\ threads[t].pc = "return"
    /\ returned' = Append(returned, _storage_factory)
    /\ threads' = [threads EXCEPT ![t] = IdleThread]
    /\ UNCHANGED <<environ, storage, factories, _storage_factory, last, created, validationVars,
                   paginationVars, ioVars, endpointVars>>

-----------------------------------------------------------------------------
(* The views: import_person_records, export_person_records,               *)
(* get_configured_storage_backends, get_storage_backend_info,              *)
(* test_storage_backend                                                    *)

NoRequest == [endpoint |-> "none", uri |-> NotGiven, status |-> 0]

Responded(endpoint, uri, status) == [endpoint |-> endpoint, uri |-> uri, status |-> status]

\* the request bodies of the two storage endpoints: {"uri": ...} or {}
EndpointURIs ==
    {NotGiven, Given(<<>>), Given(ValidS3URI), Given(S3Prefix \o <<"b">>), Given(ValidAbfsURI),
     Given(FilePrefix \o <<"/", "k">>), Given(<<"/", "l", "/", "k">>)}

\* GetBackendInfoRequest(data=request.data).is_valid(): uri = serializers.CharField(),
\* a required field that may not be blank
GetBackendInfoRequest_is_valid(uri) == uri.given /\ uri.value # <<>>

\* data.get("s3_uri") or data.get("azure_blob_uri") or data.get("storage_uri") or
\* data.get("file"): the first URI of the validated data; without one, the uploaded
\* file of an import and the temporary file of an export
source_of(data) ==
    IF data.s3_uri.given /\ data.s3_uri.value # <<>> THEN URIString(data.s3_uri.value)
    ELSE IF data.azure_blob_uri.given /\ data.azure_blob_uri.value # <<>>
         THEN URIString(data.azure_blob_uri.value)
    ELSE IF data.storage_uri.given /\ data.storage_uri.value # <<>>
         THEN URIString(data.storage_uri.value)
    ELSE FileObject

\* what EMPIService's work on the opened stream or on the file object ends with
ServiceOutcomes == {"returned", "FileNotFoundError", "InvalidPersonRecordFileFormat",
                    "DatabaseError"}

\* the response status of import_person_records:
\* `except (FileNotFoundError, InvalidPersonRecordFileFormat)` answers with 400, any other
\* exception is not handled
import_status(outcome) ==
    IF outcome = "returned" THEN 200
    ELSE IF outcome \in {"FileNotFoundError", "InvalidPersonRecordFileFormat"} THEN 400
    ELSE 500

\* the response status of export_person_records to a storage URI:
\* `except FileNotFoundError` answers with 400, any other exception is not handled
export_status(outcome) ==
    IF outcome = "returned" THEN 200 ELSE IF outcome = "FileNotFoundError" THEN 400 ELSE 500

\* the response status of export_person_records to a temporary file: no exception is
\* handled
export_file_status(outcome) == IF outcome = "returned" THEN 200 ELSE 500

\* the response status of test_storage_backend: `except Exception` answers with 400
test_status(outcome) == IF outcome = "returned" THEN 200 ELSE 400

\* the response status of a view whose work on a URI ended with the outcome
status_of(endpoint, outcome) ==
    IF endpoint = "test_storage_backend" THEN test_status(outcome)
    ELSE IF endpoint = "import_person_records" THEN import_status(outcome)
    ELSE export_status(outcome)

\* the view's answer when open_source / open_sink on the URI went as o says and the block
\* under the with statement ends with one of the outcomes in services: the stream is
\* closed when the block is left, and an exception of the open or of the block reaches
\* the view
ServeOpened(endpoint, uri, o, services) ==
    \E outcome \in IF o.outcome = "yielded" THEN services ELSE {o.outcome} :
        /\ AfterGetStorageFactory(o.got)
        /\ reached' = IF o.open_called
                      THEN reached \cup {[op |-> "open_with_backend", uri |-> uri]}
                      ELSE reached
        /\ streams' = IF o.outcome = "yielded"
                      THEN Append(streams, [uri |-> uri, mode |-> o.mode, owner |-> "fsspec",
                                            state |-> "closed"])
                      ELSE streams
        /\ request' = Responded(endpoint, Given(uri), status_of(endpoint, outcome))

\* the view has the URI opened with open_source / open_sink
ServeURI(endpoint, fn, uri, services) ==
    \E world \in AzureWorlds, transport \in TransportOutcomes :
        ServeOpened(endpoint, uri, open_uri(fn, uri, world, transport), services)

\* EMPIService().import_person_records(source, config_id) and
\* EMPIService().export_person_records(sink) on a URI: the service reads the source
\* through open_source and writes the sink through open_sink
EMPIService_transfer(endpoint, fn, uri) == ServeURI(endpoint, fn, uri, ServiceOutcomes)

\* the view answers without a call on the Storage Factory
ServeWithoutURI(endpoint, status) ==
    /\ request' = Responded(endpoint, NotGiven, status)
    /\ UNCHANGED <<factories, _storage_factory, created, returned, reached, streams>>

\* EMPIService().import_person_records(file, config_id) on the uploaded file and
\* EMPIService().export_person_records(f) on the temporary file: open_source / open_sink
\* yield the file object, the Storage Factory is not called
EMPIService_transfer_file(endpoint) ==
    \E service \in ServiceOutcomes :
        ServeWithoutURI(endpoint, IF endpoint = "import_person_records"
                                  THEN import_status(service)
                                  ELSE export_file_status(service))

\* import_person_records, after serializer.is_valid(raise_exception=True)
ImportPersonRecords ==
    /\ request.endpoint = "none"
    /\ ser.pc = "done"
    /\ ser.cls = "ImportPersonRecordsRequest"
    /\ IF ser.outcome # "valid"
       THEN ServeWithoutURI("import_person_records", IF ser.outcome = "invalid" THEN 400 ELSE 500)
       ELSE IF source_of(ser.data).is_str
       THEN EMPIService_transfer("import_person_records", "open_source", source_of(ser.data).uri)
       ELSE EMPIService_transfer_file("import_person_records")
    /\ UNCHANGED <<environ, storage, last, validationVars, paginationVars, block, threadVars>>

\* export_person_records, after serializer.is_valid(raise_exception=True)
ExportPersonRecords ==
    /\ request.endpoint = "none"
    /\ ser.pc = "done"
    /\ ser.cls = "ExportPersonRecordsRequest"
    /\ IF ser.outcome # "valid"
       THEN ServeWithoutURI("export_person_records", IF ser.outcome = "invalid" THEN 400 ELSE 500)
       ELSE IF source_of(ser.data).is_str
       THEN EMPIService_transfer("export_person_records", "open_sink", source_of(ser.data).uri)
       ELSE EMPIService_transfer_file("export_person_records")
    /\ UNCHANGED <<environ, storage, last, validationVars, paginationVars, block, threadVars>>

\* get_configured_storage_backends: get_configured_backends(), then
\* get_storage_factory().get_configured_backend().value; its ValueError is not handled
GetConfiguredStorageBackends ==
    /\ request.endpoint = "none"
    /\ ser.pc = "idle"
    /\ LET got == get_storage_factory(factories, _storage_factory, storage)
           backend == IF got.raised THEN ErrStorageRequired
                      ELSE get_configured_backend(got.factories[got.instance])
       IN  /\ AfterGetStorageFactory(got)
           /\ request' = Responded("get_configured_storage_backends", NotGiven,
                                   IF backend \in StorageBackend THEN 200 ELSE 500)
    /\ UNCHANGED <<environ, storage, last, reached, streams, validationVars, paginationVars,
                   block, threadVars>>

\* get_storage_backend_info: the serializer, then get_storage_backend_info(uri). Inside
\* the module the name is the view itself, its def replaces the function imported from
\* main.util.io: the view is called with a str for its request, the call raises, the
\* exception is not handled and the Storage Factory is not called
GetStorageBackendInfo ==
    /\ request.endpoint = "none"
    /\ ser.pc = "idle"
    /\ \E uri \in EndpointURIs :
          IF ~GetBackendInfoRequest_is_valid(uri)
          THEN ServeWithoutURI("get_storage_backend_info", 400)
          ELSE /\ request' = Responded("get_storage_backend_info", uri, 500)
               /\ UNCHANGED <<factories, _storage_factory, created, returned, reached, streams>>
    /\ UNCHANGED <<environ, storage, last, validationVars, paginationVars, block, threadVars>>

\* test_storage_backend: the serializer, then `with open_source(uri) as f: pass`
TestStorageBackend ==
    /\ request.endpoint = "none"
    /\ ser.pc = "idle"
    /\ \E uri \in EndpointURIs :
          IF ~GetBackendInfoRequest_is_valid(uri)
          THEN ServeWithoutURI("test_storage_backend", 400)
          ELSE ServeURI("test_storage_backend", "open_source", uri.value, {"returned"})
    /\ UNCHANGED <<environ, storage, last, validationVars, paginationVars, block, threadVars>>

-----------------------------------------------------------------------------
(* The state of pagination, streams, endpoints and threads before any call *)

InitOther ==
    /\ pag = NoPagination
    /\ walk = NoWalk
    /\ streams = <<>>
    /\ block = NoBlock
    /\ request = NoRequest
    /\ reached = {}
    /\ threads = [t \in Threads |-> IdleThread]

-----------------------------------------------------------------------------
(* Specification of the factory and its singleton: one thread, any static  *)
(* configuration, which may be replaced while the process runs             *)

Init ==
    /\ environ = EmptyEnviron
    /\ storage \in PlainStorages
    /\ factories = <<>>
    /\ _storage_factory = 0
    /\ returned = <<>>
    /\ last = NoCall
    /\ created = NotCreated
    /\ call = NoValidation
    /\ ser = NoSerializer
    /\ InitOther

Next ==
    \/ SetStaticConfig
    \/ Construct
    \/ GetStorageFactory
    \/ GetConfiguredBackend
    \/ GetBackendForUri

Spec == Init /\ [][Next]_vars

-----------------------------------------------------------------------------
(* Properties of the factory, checked under Spec *)

\* C1: get_backend_for_uri(uri) gives what get_configured_backend() gives on the same
\* factory, the backend or the configuration error, whatever the scheme of the URI
C1_BackendForUriIsConfigured ==
    last.op = "get_backend_for_uri" =>
        last.outcome = get_configured_backend(factories[last.self])

\* an abfs:// URI answered with S3, the configured backend
C1_Witness ==
    /\ last.op = "get_backend_for_uri"
    /\ startswith(last.uri, AbfsPrefix)
    /\ last.outcome = S3

\* C4: in one thread every get_storage_factory() call returns the instance the first
\* call created, so the getter constructs once
C4_Singleton ==
    /\ \A i \in 1..Len(returned) : returned[i] = returned[1]
    /\ Len(returned) > 0 => _storage_factory = returned[1]

\* three calls answered, with a directly constructed factory beside the singleton
C4_Witness ==
    /\ Len(returned) = MaxCalls
    /\ Len(factories) > 1
    /\ last.op = "get_storage_factory"

\* C5: get_configured_backend() returns S3 for the tag s3, AZURE_BLOB for the tag
\* azure_blob, and raises a configuration error in every other case; never LOCAL
C5_ConfiguredBackend ==
    last.op = "get_configured_backend" =>
        LET cfg == factories[last.self].storage_config
        IN  /\ (cfg.present /\ cfg.backend = "s3") => last.outcome = S3
            /\ (cfg.present /\ cfg.backend = "azure_blob") => last.outcome = AZURE_BLOB
            /\ (~cfg.present) => last.outcome = ErrStorageRequired
            /\ (cfg.present /\ cfg.backend \notin {"s3", "azure_blob"}) =>
                   last.outcome = ErrUnsupportedBackend
            /\ last.outcome # StorageBackend_LOCAL

\* the tag local raises the unsupported-backend error
C5_Witness ==
    /\ last.op = "get_configured_backend"
    /\ factories[last.self].storage_config.present
    /\ factories[last.self].storage_config.backend = "local"
    /\ last.outcome = ErrUnsupportedBackend

\* C6, as claimed: no factory instance holds an absent storage configuration,
\* because constructing one fails
C6_NoFactoryWithoutStorage ==
    \A i \in 1..Len(factories) : factories[i].storage_config.present

-----------------------------------------------------------------------------
(* Specification of credential resolution: any environment and any nested  *)
(* settings of the backend that is configured, the other backend's left    *)
(* unset; factories are constructed and asked for their fsspec settings    *)

\* storage sections with the nested settings of one backend
S3Storages ==
    {NoStorage} \cup [present : {TRUE}, backend : {"s3"}, s3 : S3Configs, azure_blob : {NoAzure}]
AzureStorages ==
    {NoStorage} \cup [present : {TRUE}, backend : {"azure_blob"}, s3 : {NoS3},
                      azure_blob : AzureConfigs]

AwsEnvirons ==
    {[n \in EnvNames |-> IF n \in AwsEnvNames THEN e[n] ELSE NoneVal] :
        e \in [AwsEnvNames -> EnvValues]}
AzureEnvirons ==
    {[n \in EnvNames |-> IF n \in AzureEnvNames THEN e[n] ELSE NoneVal] :
        e \in [AzureEnvNames -> EnvValues]}

InitCredentials ==
    /\ \/ environ \in AwsEnvirons /\ storage \in S3Storages
       \/ environ \in AzureEnvirons /\ storage \in AzureStorages
    /\ factories = <<>>
    /\ _storage_factory = 0
    /\ returned = <<>>
    /\ last = NoCall
    /\ created = NotCreated
    /\ call = NoValidation
    /\ ser = NoSerializer
    /\ InitOther

NextCredentials ==
    \/ Construct
    \/ ConfigureS3
    \/ ConfigureAzure

SpecCredentials == InitCredentials /\ [][NextCredentials]_vars

-----------------------------------------------------------------------------
(* Properties of credential resolution, checked under SpecCredentials *)

\* the settings of each resolver: key of the mapping, environment variable, config field
S3Settings ==
    { [key |-> "key", env |-> "AWS_ACCESS_KEY_ID", field |-> "access_key_id"],
      [key |-> "secret", env |-> "AWS_SECRET_ACCESS_KEY", field |-> "secret_access_key"],
      [key |-> "region", env |-> "AWS_DEFAULT_REGION", field |-> "region"],
      [key |-> "endpoint_url", env |-> "AWS_ENDPOINT_URL", field |-> "endpoint_url"] }
AzureSettings ==
    { [key |-> "account_name", env |-> "AZURE_STORAGE_ACCOUNT_NAME", field |-> "account_name"],
      [key |-> "account_key", env |-> "AZURE_STORAGE_ACCOUNT_KEY", field |-> "account_key"],
      [key |-> "connection_string", env |-> "AZURE_STORAGE_CONNECTION_STRING",
       field |-> "connection_string"],
      [key |-> "endpoint_url", env |-> NoneVal, field |-> "endpoint_url"] }

\* a value that is neither None nor the empty string
Supplied(v) == v \notin {NoneVal, ""}

LastIsResolver == last.op \in {"configure_s3_backend", "configure_azure_backend"}
LastSettings == IF last.op = "configure_s3_backend" THEN S3Settings ELSE AzureSettings

\* what the environment and the config file of the last call's factory hold for a setting
EnvValueOf(s) == os_environ_get(environ, s.env)
CfgValueOf(s) ==
    LET sc == factories[last.self].storage_config
        nested == IF last.op = "configure_s3_backend" THEN sc.s3 ELSE sc.azure_blob
    IN  IF sc.present /\ nested.present THEN nested[s.field] ELSE NoneVal

\* C2, as claimed: where the environment and the config file both give a non-empty
\* value for a setting, the resolved mapping holds the environment's value
C2_EnvironmentWins ==
    LastIsResolver =>
        \A s \in LastSettings :
            (Supplied(EnvValueOf(s)) /\ Supplied(CfgValueOf(s))) =>
                (s.key \in DOMAIN last.mapping /\ last.mapping[s.key] = EnvValueOf(s))

\* C3: the resolved mapping has a key only where the environment or the config file
\* gives a non-empty value, no key maps to an empty or null value, and nothing set at
\* all gives the empty mapping, without an error
C3_OnlySuppliedKeys ==
    LastIsResolver =>
        /\ last.outcome = "ok"
        /\ \A k \in DOMAIN last.mapping :
              /\ Supplied(last.mapping[k])
              /\ \E s \in LastSettings :
                    s.key = k /\ (Supplied(EnvValueOf(s)) \/ Supplied(CfgValueOf(s)))
        /\ (\A s \in LastSettings : ~Supplied(EnvValueOf(s)) /\ ~Supplied(CfgValueOf(s))) =>
              last.mapping = EmptyMap

\* an empty-string environment value and an empty-string config value leave their keys
\* out, next to a key that is supplied
C3_Witness ==
    /\ last.op = "configure_s3_backend"
    /\ EnvValueOf(CHOOSE s \in S3Settings : s.key = "key") = ""
    /\ CfgValueOf(CHOOSE s \in S3Settings : s.key = "key") = NoneVal
    /\ CfgValueOf(CHOOSE s \in S3Settings : s.key = "secret") = ""
    /\ EnvValueOf(CHOOSE s \in S3Settings : s.key = "secret") = NoneVal
    /\ DOMAIN last.mapping = {"region"}

\* no storage section and an empty environment: the empty mapping
C3_WitnessEmpty ==
    /\ last.op = "configure_azure_backend"
    /\ ~factories[last.self].storage_config.present
    /\ last.mapping = EmptyMap

-----------------------------------------------------------------------------
(* Specification of request validation: a validator of the mixin is       *)
(* called on any URI of the model, or a serializer validates a request     *)

InitValidation ==
    /\ environ = EmptyEnviron
    /\ storage = NoStorage
    /\ factories = <<>>
    /\ _storage_factory = 0
    /\ returned = <<>>
    /\ last = NoCall
    /\ created = NotCreated
    /\ call = NoValidation
    /\ ser = NoSerializer
    /\ InitOther

NextValidation ==
    \/ CallValidator
    \/ IsValid
    \/ RunField
    \/ CallItself
    \/ RunValidate

SpecValidation == InitValidation /\ [][NextValidation]_vars

-----------------------------------------------------------------------------
(* Properties of request validation, checked under SpecValidation *)

StorageOptions == {"s3_uri", "azure_blob_uri", "storage_uri", "file"}

\* the storage options a request supplies
Supplies(data) == {name \in StorageOptions : data[name].given}

\* every URI the request supplies is one the validator of its field accepts, and the
\* config id is a valid one
WellFormedFields(data) ==
    /\ \A name \in URIFields :
          data[name].given => mixin_validate("validate_" \o name, data[name].value).status = "returned"
    /\ data.config_id = Given(Config_1)

ImportDone == ser.pc = "done" /\ ser.cls = "ImportPersonRecordsRequest"

\* C7, as claimed: an import request is accepted only with exactly one storage option;
\* with two or more it is invalid with "Provide only one storage option", with none it
\* is invalid with "Must provide one of"
C7_ExactlyOneStorageOption ==
    (ImportDone /\ WellFormedFields(ser.data)) =>
        LET n == Cardinality(Supplies(ser.data))
        IN  /\ ser.outcome = "valid" => n = 1
            /\ n >= 2 => (ser.outcome = "invalid" /\ <<"non_field_errors", ErrOnlyOne>> \in ser.errors)
            /\ n = 0 => (ser.outcome = "invalid" /\ <<"non_field_errors", ErrMustProvide>> \in ser.errors)

\* the request carries exactly one URI, a valid one, no file and a valid config id
OneValidURI(data) ==
    /\ WellFormedFields(data)
    /\ ~data.file.given
    /\ Cardinality(Supplies(data)) = 1

\* C8, as claimed: validating an import request with exactly one valid URI and a valid
\* config id ends with the request valid, and the validator of the URI's field is
\* entered once
C8_ValidImportIsValid ==
    (ser.cls = "ImportPersonRecordsRequest" /\ ser.pc # "idle" /\ OneValidURI(ser.data)) =>
        /\ ser.depth <= 1
        /\ ser.pc = "done" => ser.outcome = "valid"

\* C9, as claimed: validate_s3_uri(value) returns value when value starts with s3://,
\* the parsed scheme is s3, the bucket matches [a-z0-9.-]+ and the key is not empty,
\* and signals "Invalid S3 URI" in every other case
C9_S3URIValidation ==
    call.fn = "validate_s3_uri" =>
        LET parsed == urlparse(call.value)
            conditions == /\ ~parsed.raised
                          /\ startswith(call.value, S3Prefix)
                          /\ parsed.scheme = <<"s", "3">>
                          /\ parsed.netloc # <<>>
                          /\ \A i \in 1..Len(parsed.netloc) :
                                parsed.netloc[i] \in Range(LowerLetters) \cup Digits \cup {".", "-"}
                          /\ lstrip_slash(parsed.path) # <<>>
        IN  IF conditions THEN call.outcome = Returned(call.value)
            ELSE call.outcome = ErrInvalidS3

\* C10, as claimed: validate_azure_blob_uri(value) returns value when value starts with
\* abfs:// (or azure://), its authority contains "@" and ".dfs.core.windows.net" (or
\* ".blob.core.windows.net") and its path is not empty, and signals "Invalid Azure Blob
\* Storage URI" in every other case
C10_AzureURIValidation ==
    call.fn = "validate_azure_blob_uri" =>
        LET parsed == urlparse(call.value)
            conditions ==
                /\ ~parsed.raised
                /\ has_char(parsed.netloc, "@")
                /\ parsed.path # <<>>
                /\ \/ startswith(call.value, AbfsPrefix) /\ contains(parsed.netloc, DfsHost)
                   \/ startswith(call.value, AzurePrefix) /\ contains(parsed.netloc, BlobHost)
        IN  IF conditions THEN call.outcome = Returned(call.value)
            ELSE call.outcome = ErrInvalidAzure

\* C11: validate_storage_uri(value) gives the outcome of validate_s3_uri(value) for a
\* value that starts with s3://, the outcome of validate_azure_blob_uri(value) for one
\* that starts with abfs:// or azure://, and "Unsupported storage URI format" for every
\* other value; it accepts no value that neither backend validator accepts
C11_StorageURIDispatch ==
    call.fn = "validate_storage_uri" =>
        LET s3 == startswith(call.value, S3Prefix)
            azure == startswith(call.value, AbfsPrefix) \/ startswith(call.value, AzurePrefix)
        IN  /\ s3 => call.outcome = validate_s3_uri(call.value)
            /\ azure => call.outcome = validate_azure_blob_uri(call.value)
            /\ (~s3 /\ ~azure) => call.outcome = ErrUnsupportedURI
            /\ call.outcome.status = "returned" =>
                   \/ validate_s3_uri(call.value) = Returned(call.value)
                   \/ validate_azure_blob_uri(call.value) = Returned(call.value)

\* an azure:// URI that the generic validator accepted
C11_Witness ==
    /\ call.fn = "validate_storage_uri"
    /\ startswith(call.value, AzurePrefix)
    /\ call.outcome = Returned(call.value)

\* a file:// URI that the generic validator refused
C11_WitnessUnsupported ==
    /\ call.fn = "validate_storage_uri"
    /\ startswith(call.value, FilePrefix)
    /\ call.outcome = ErrUnsupportedURI

-----------------------------------------------------------------------------
(* Specification of pagination: one method of PaginationMixin is called on *)
(* a request mapping, or on an item list, a page and a page size           *)

InitPagination ==
    /\ environ = EmptyEnviron
    /\ storage = NoStorage
    /\ factories = <<>>
    /\ _storage_factory = 0
    /\ returned = <<>>
    /\ last = NoCall
    /\ created = NotCreated
    /\ call = NoValidation
    /\ ser = NoSerializer
    /\ InitOther

NextPagination ==
    \/ GetPaginationParams
    \/ GetSkipTake
    \/ PaginateList

SpecPagination == InitPagination /\ [][NextPagination]_vars

-----------------------------------------------------------------------------
(* Properties of pagination, checked under SpecPagination *)

\* the page and the page size a request mapping stands for: page or 1, and the smaller of
\* page_size or 50, and 1000
NormalPage(data) == IF "page" \in DOMAIN data THEN data["page"] ELSE 1
NormalPageSize(data) ==
    LET given == IF "page_size" \in DOMAIN data THEN data["page_size"] ELSE 50
    IN  IF given > 1000 THEN 1000 ELSE given

\* C12: get_skip_take(data) returns skip = (page - 1) * page_size and take = page_size + 1
\* for the normalized page and page_size of data
C12_SkipTake ==
    pag.op = "get_skip_take" =>
        /\ pag.skip_take.skip = (NormalPage(pag.data) - 1) * NormalPageSize(pag.data)
        /\ pag.skip_take.take = NormalPageSize(pag.data) + 1
        /\ get_pagination_params(pag.data) =
               [page |-> NormalPage(pag.data), page_size |-> NormalPageSize(pag.data)]

\* page 2 with page_size 10 gives skip 10 and take 11
C12_Witness ==
    /\ pag.op = "get_skip_take"
    /\ pag.data = [page |-> 2, page_size |-> 10]
    /\ pag.skip_take = [skip |-> 10, take |-> 11]

\* a page_size of 5000 gives take 1001
C12_WitnessCapped ==
    /\ pag.op = "get_skip_take"
    /\ pag.data = [page_size |-> 5000]
    /\ pag.skip_take = [skip |-> 0, take |-> 1001]

\* C13: get_pagination_params(data) returns data's page, or 1 when it is absent, and the
\* smaller of data's page_size (50 when absent) and 1000; the page_size it returns never
\* exceeds 1000
C13_ParamsCapped ==
    pag.op = "get_pagination_params" =>
        /\ pag.params.page = NormalPage(pag.data)
        /\ pag.params.page_size = NormalPageSize(pag.data)
        /\ pag.params.page_size <= 1000

\* a page_size of 5000 comes back as 1000, next to the default page
C13_Witness ==
    /\ pag.op = "get_pagination_params"
    /\ pag.data = [page_size |-> 5000]
    /\ pag.params = [page |-> 1, page_size |-> 1000]

\* C14: for a page_size of at least 1, paginate_list(items, page, page_size) returns
\* has_next = (len(items) > page_size) and, as items, the first min(len(items), page_size)
\* items in their order; the item after them is not in the output
C14_PageItems ==
    (pag.op = "paginate_list" /\ pag.page_size >= 1) =>
        LET n == IF Len(pag.items) < pag.page_size THEN Len(pag.items) ELSE pag.page_size
        IN  /\ pag.result.pagination.has_next = (Len(pag.items) > pag.page_size)
            /\ Len(pag.result.items) = n
            /\ \A i \in 1..n : pag.result.items[i] = pag.items[i]

\* 11 items with page_size 10: 10 items come back and has_next is true
C14_Witness ==
    /\ pag.op = "paginate_list"
    /\ Len(pag.items) = 11
    /\ pag.page_size = 10
    /\ Len(pag.result.items) = 10
    /\ pag.result.pagination.has_next

\* C15: in every result of paginate_list, has_previous = (page > 1), next_page is
\* page + 1 when has_next is true and None otherwise, previous_page is page - 1 when
\* has_previous is true and None otherwise, and page and page_size are the arguments
C15_Navigation ==
    pag.op = "paginate_list" =>
        LET m == pag.result.pagination
        IN  /\ m.has_previous = (pag.page > 1)
            /\ m.next_page = IF m.has_next THEN SomeInt(pag.page + 1) ELSE NoInt
            /\ m.previous_page = IF m.has_previous THEN SomeInt(pag.page - 1) ELSE NoInt
            /\ m.page = pag.page
            /\ m.page_size = pag.page_size

\* 5 items on page 2 with page_size 10: no next page, previous page 1
C15_Witness ==
    /\ pag.op = "paginate_list"
    /\ Len(pag.items) = 5
    /\ pag.page = 2
    /\ pag.page_size = 10
    /\ pag.result.pagination.next_page = NoInt
    /\ pag.result.pagination.previous_page = SomeInt(1)

\* C22, as claimed: for every request mapping with integer page and page_size, zero and
\* negative values included, get_pagination_params returns page >= 1 and
\* 1 <= page_size <= 1000, and get_skip_take returns skip >= 0 and take >= 2
C22_NormalizedValuesPositive ==
    /\ pag.op = "get_pagination_params" =>
           /\ pag.params.page >= 1
           /\ pag.params.page_size >= 1
           /\ pag.params.page_size <= MAX_PAGE_SIZE
    /\ pag.op = "get_skip_take" =>
           /\ pag.skip_take.skip >= 0
           /\ pag.skip_take.take >= 2

-----------------------------------------------------------------------------
(* Specification of a walk: one client walks one result set page by page *)

InitWalk ==
    /\ environ = EmptyEnviron
    /\ storage = NoStorage
    /\ factories = <<>>
    /\ _storage_factory = 0
    /\ returned = <<>>
    /\ last = NoCall
    /\ created = NotCreated
    /\ call = NoValidation
    /\ ser = NoSerializer
    /\ InitOther

NextWalk ==
    \/ StartWalk
    \/ RequestPage

SpecWalk == InitWalk /\ [][NextWalk]_vars

-----------------------------------------------------------------------------
(* Properties of a walk, checked under SpecWalk *)

\* ceil(n / d) for n >= 0 and d >= 1
ceil_div(n, d) == (n + d - 1) \div d

\* C21: in a walk over a list of N items with a page_size in 1..1000, after page p has
\* been received has_next is true exactly when p * page_size < N, the items received
\* so far are the first min(p * page_size, N) items of the list in order, a reported
\* next page is never empty, and the walk ends after ceil(N / page_size) pages (one empty
\* page when N = 0) having received every item exactly once in order
C21_WalkIsExact ==
    walk.pages >= 1 =>
        LET N == Len(walk.items)
            s == walk.page_size
            p == walk.page
        IN  /\ p = walk.pages
            /\ walk.has_next = (p * s < N)
            /\ walk.received = SubSeq(walk.items, 1, min(p * s, N))
            /\ walk.has_next =>
                   /\ walk.next_page = SomeInt(p + 1)
                   /\ list_page(walk.items, [page |-> p + 1, page_size |-> s]).items # <<>>
            /\ (walk.pc = "done") = ~walk.has_next
            /\ walk.pc = "done" =>
                   /\ walk.received = walk.items
                   /\ walk.pages = IF N = 0 THEN 1 ELSE ceil_div(N, s)

\* a walk over 4 items with page_size 2 has ended after 2 full pages, with no third page
C21_Witness ==
    /\ walk.pc = "done"
    /\ Len(walk.items) = 4
    /\ walk.page_size = 2
    /\ walk.pages = 2
    /\ walk.received = walk.items

\* a walk over no items has ended after one empty page
C21_WitnessEmpty ==
    /\ walk.pc = "done"
    /\ walk.items = <<>>
    /\ walk.pages = 1
    /\ walk.received = <<>>

\* a walk over 11 items with page_size 10 has ended after 2 pages, the second of 1 item
C21_WitnessLookahead ==
    /\ walk.pc = "done"
    /\ Len(walk.items) = 11
    /\ walk.page_size = 10
    /\ walk.pages = 2
    /\ walk.received = walk.items

-----------------------------------------------------------------------------
(* Specification of the stream helpers: one caller opens sources and sinks *)
(* in with statements, one after the other, under any storage section, any *)
(* account-name variable and any outcome of the Azure imports and of the   *)
(* transport                                                               *)

AccountNameEnvirons ==
    {[EmptyEnviron EXCEPT !["AZURE_STORAGE_ACCOUNT_NAME"] = v] : v \in EnvValues}

InitIO ==
    /\ environ \in AccountNameEnvirons
    /\ storage \in PlainStorages
    /\ factories = <<>>
    /\ _storage_factory = 0
    /\ returned = <<>>
    /\ last = NoCall
    /\ created = NotCreated
    /\ call = NoValidation
    /\ ser = NoSerializer
    /\ InitOther

NextIO ==
    \/ EnterWith
    \/ BlockCompletes
    \/ BlockRaises
    \/ NextWith

SpecIO == InitIO /\ [][NextIO]_vars

-----------------------------------------------------------------------------
(* Properties of the stream helpers, checked under SpecIO *)

\* C16: a stream that open_source / open_sink opened for a URI is open while the
\* caller's block runs and closed once the block is left, at its end or by an exception,
\* and that exception is what the with statement ends with
C16_ScopedRelease ==
    /\ \A h \in 1..Len(streams) :
          streams[h].owner = "fsspec" =>
              (streams[h].state = "open" <=> (block.pc = "inside" /\ block.handle = h))
    /\ (block.pc = "left" /\ block.source.is_str /\ block.handle # 0) =>
           /\ streams[block.handle].state = "closed"
           /\ block.outcome \in {"completed"} \cup BlockExceptions

\* the block of an open_sink on a URI raised, and the stream it wrote to is closed
C16_Witness ==
    /\ block.pc = "left"
    /\ block.fn = "open_sink"
    /\ block.source.is_str
    /\ block.outcome \in BlockExceptions
    /\ block.handle # 0
    /\ streams[block.handle] = [uri |-> block.source.uri, mode |-> "wb", owner |-> "fsspec",
                                state |-> "closed"]

\* C17, as claimed: _configure_fsspec_for_azure never raises, so that open_source and
\* open_sink on a URI under the Azure backend always go on to the open call
C17_AzureActivationNeverRaises ==
    /\ block.azure \in {"not called", "returned"}
    /\ block.azure # "not called" => block.open_called

-----------------------------------------------------------------------------
(* Specification of the endpoints: one request is validated and served,    *)
(* under any storage section                                               *)

InitEndpoints ==
    /\ environ = EmptyEnviron
    /\ storage \in PlainStorages
    /\ factories = <<>>
    /\ _storage_factory = 0
    /\ returned = <<>>
    /\ last = NoCall
    /\ created = NotCreated
    /\ call = NoValidation
    /\ ser = NoSerializer
    /\ InitOther

NextEndpoints ==
    \/ IsValid
    \/ RunField
    \/ CallItself
    \/ RunValidate
    \/ ImportPersonRecords
    \/ ExportPersonRecords
    \/ GetConfiguredStorageBackends
    \/ GetStorageBackendInfo
    \/ TestStorageBackend

SpecEndpoints == InitEndpoints /\ [][NextEndpoints]_vars

-----------------------------------------------------------------------------
(* Properties of the endpoints, checked under SpecEndpoints *)

\* C18, as claimed: every URI that an endpoint hands to the Storage Factory, in
\* open_with_backend or in get_backend_info, is one that validate_storage_uri accepts
C18_OnlyValidURIsReachFactory ==
    \A c \in reached : validate_storage_uri(c.uri) = Returned(c.uri)

\* what holds of the export endpoint alone: the URI it has opened is a valid one
C18_ExportValidates ==
    request.endpoint = "export_person_records" =>
        \A c \in reached : validate_storage_uri(c.uri) = Returned(c.uri)

\* the export endpoint had a valid URI opened
C18_ExportReached ==
    /\ request.endpoint = "export_person_records"
    /\ reached # {}

-----------------------------------------------------------------------------
(* Specification of the singleton under threads: MaxThreads threads call   *)
(* get_storage_factory(), their steps interleaved in any order, while the  *)
(* static configuration may be replaced                                    *)

InitConcurrent ==
    /\ environ = EmptyEnviron
    /\ storage \in PlainStorages
    /\ factories = <<>>
    /\ _storage_factory = 0
    /\ returned = <<>>
    /\ last = NoCall
    /\ created = NotCreated
    /\ call = NoValidation
    /\ ser = NoSerializer
    /\ InitOther

NextConcurrent ==
    \/ SetStaticConfig
    \/ \E t \in Threads : ThreadTest(t)
    \/ \E t \in Threads : ThreadConstruct(t)
    \/ \E t \in Threads : ThreadStore(t)
    \/ \E t \in Threads : ThreadReturn(t)

SpecConcurrent == InitConcurrent /\ [][NextConcurrent]_vars

-----------------------------------------------------------------------------
(* Properties of the singleton under threads, checked under SpecConcurrent *)

\* C19, as claimed: whatever the interleaving of the threads' calls, StorageFactory is
\* constructed at most once and every call of get_storage_factory() returns the same
\* instance
C19_ConstructedOnceAndShared ==
    /\ Len(factories) <= 1
    /\ \A i \in 1..Len(returned) : \A j \in 1..Len(returned) : returned[i] = returned[j]

-----------------------------------------------------------------------------
(* Specification of the singleton over time: one thread obtains the        *)
(* singleton and asks it for its backend, while the static configuration   *)
(* is replaced any number of times                                         *)

InitStaleness ==
    /\ environ = EmptyEnviron
    /\ storage \in PlainStorages
    /\ factories = <<>>
    /\ _storage_factory = 0
    /\ returned = <<>>
    /\ last = NoCall
    /\ created = NotCreated
    /\ call = NoValidation
    /\ ser = NoSerializer
    /\ InitOther

NextStaleness ==
    \/ SetStaticConfig
    \/ GetStorageFactory
    \/ GetConfiguredBackend
    \/ GetBackendInfo

SpecStaleness == InitStaleness /\ [][NextStaleness]_vars

-----------------------------------------------------------------------------
(* Properties of the singleton over time, checked under SpecStaleness *)

\* the answer a storage section stands for: its backend, or the configuration error
BackendOf(section) ==
    IF ~section.present THEN ErrStorageRequired
    ELSE IF section.backend = "s3" THEN S3
    ELSE IF section.backend = "azure_blob" THEN AZURE_BLOB
    ELSE ErrUnsupportedBackend

\* C20: across the calls one thread makes and any changes of the static configuration
\* between them, the singleton is the instance created first and holds the
\* configuration it was created from, and get_configured_backend() and
\* get_backend_info() on it answer with the backend of that configuration
C20_SingletonKeepsFirstConfiguration ==
    /\ _storage_factory # 0 =>
           /\ created.set
           /\ factories[_storage_factory].storage_config = created.storage
    /\ (last.op = "get_configured_backend" /\ last.self = _storage_factory) =>
           last.outcome = BackendOf(created.storage)
    /\ (last.op = "get_backend_info" /\ last.self = _storage_factory) =>
           last.outcome = IF BackendOf(created.storage) = S3 THEN "s3"
                          ELSE IF BackendOf(created.storage) = AZURE_BLOB THEN "azure_blob"
                          ELSE BackendOf(created.storage)

\* the singleton was created under s3, the configuration now says azure_blob, and
\* get_configured_backend() on the singleton still answers S3
C20_Witness ==
    /\ _storage_factory # 0
    /\ created.storage.present
    /\ created.storage.backend = "s3"
    /\ storage.present
    /\ storage.backend = "azure_blob"
    /\ last.op = "get_configured_backend"
    /\ last.self = _storage_factory
    /\ last.outcome = S3

====
